---- MODULE Spec2Model ----
(***************************************************************************)
(* Model of tgops.py: the stream relay (run_live), the plan / apply /      *)
(* plan-github-pr-comment commands and the log summarizer.                 *)
(*                                                                         *)
(* Text is modelled as a sequence of one-character strings; a line is a    *)
(* text that ends with "\n"; a file is the sequence of the lines written   *)
(* to it, and its content (read_text) is their concatenation.              *)
(***************************************************************************)
EXTENDS Integers, Sequences, FiniteSets, TLC

VARIABLES
    mpc,        \* position of the main thread
    cmd,        \* the command being run: [name, log, stale] (log: a log file was
                \* given; stale: history, "sentinel" if the command unlinked a log
                \* that held a marker line)
    call,       \* which run_live invocation is active: "plan", "show", "apply", "none"
    ncmds,      \* number of commands started so far
    child,      \* child process: "none", "running", "exited"
    cnext,      \* the child's next operation: write a line to stream s (blocks while the pipe is full), or exit
    budget,     \* number of lines the child processes may still write
    retcode,    \* proc.returncode (-1 while not exited)
    emitted,    \* history: lines the child wrote to each stream in this invocation
    pipe,       \* the two OS pipes: lines written by the child and not yet read
    tpc,        \* position of each drain thread
    ln,         \* each drain thread's local variable ln
    collector,  \* out_lines / err_lines
    echoed,     \* number of lines written to sys.stdout / sys.stderr by this invocation
    log_fh,     \* the log file handle: "none", "open", "closed"
    pending,    \* lines written to log_fh and not yet flushed to the file
    logStart,   \* history: number of lines in the log file when log_fh was opened
    logExists,  \* the log file exists
    logFile,    \* the log file's lines
    result,     \* CommandResult of the plan invocation held by Runner.plan
    returned,   \* history: the last CommandResult returned by run_live
    outExists,  \* the report's output file exists
    outFile,    \* the report's output file: the rendered report
    exitStatus, \* how the last command ended: [kind, code]
    summary     \* the StackDiffs last returned by _summarize_unit_logs

vars == <<mpc, cmd, call, ncmds, child, cnext, budget, retcode, emitted, pipe, tpc, ln,
          collector, echoed, log_fh, pending, logStart, logExists, logFile,
          result, returned, outExists, outFile, exitStatus, summary>>

(***************************************************************************)
(* Text helpers (Python str operations, as the code uses them)             *)
(***************************************************************************)

\* characters removed by str.strip()/str.lstrip() and matched by \s
Whitespace == {" ", "\t", "\n", "\r", "\f"}

UpperLetters == <<"A","B","C","D","E","F","G","H","I","J","K","L","M",
                  "N","O","P","Q","R","S","T","U","V","W","X","Y","Z">>
LowerLetters == <<"a","b","c","d","e","f","g","h","i","j","k","l","m",
                  "n","o","p","q","r","s","t","u","v","w","x","y","z">>

LowerChar(c) ==
    IF \E i \in 1..26 : UpperLetters[i] = c
    THEN LowerLetters[CHOOSE i \in 1..26 : UpperLetters[i] = c]
    ELSE c

\* str.lower()
Lower(s) == [i \in 1..Len(s) |-> LowerChar(s[i])]

\* s[i:] with a 1-based first index
From(s, i) == SubSeq(s, i, Len(s))

\* str.lstrip(): drop the leading whitespace
LStrip(s) ==
    IF \A i \in 1..Len(s) : s[i] \in Whitespace
    THEN <<>>
    ELSE From(s, CHOOSE i \in 1..Len(s) :
                     /\ s[i] \notin Whitespace
                     /\ \A j \in 1..(i-1) : s[j] \in Whitespace)

\* str.rstrip(): drop the trailing whitespace
RStrip(s) ==
    IF \A i \in 1..Len(s) : s[i] \in Whitespace
    THEN <<>>
    ELSE SubSeq(s, 1, CHOOSE i \in 1..Len(s) :
                          /\ s[i] \notin Whitespace
                          /\ \A j \in (i+1)..Len(s) : s[j] \in Whitespace)

\* str.strip(): drop leading and trailing whitespace
Strip(s) == RStrip(LStrip(s))

\* str.startswith(p)
StartsWith(s, p) == Len(s) >= Len(p) /\ SubSeq(s, 1, Len(p)) = p

\* p occurs in s at (1-based) position i
OccursAt(s, p, i) == i >= 1 /\ i + Len(p) - 1 <= Len(s) /\ SubSeq(s, i, i + Len(p) - 1) = p

\* the Python expression  p in s
Contains(s, p) == \E i \in 1..(Len(s) + 1) : OccursAt(s, p, i)

\* str.replace(old, new, 1): replace the first occurrence of old, if any
ReplaceFirst(s, old, new) ==
    IF ~ Contains(s, old) THEN s
    ELSE LET i == CHOOSE k \in 1..(Len(s) + 1) :
                      /\ OccursAt(s, old, k)
                      /\ \A j \in 1..(k-1) : ~ OccursAt(s, old, j)
         IN  SubSeq(s, 1, i - 1) \o new \o From(s, i + Len(old))

\* str.replace(old, new): replace every occurrence, scanning left to right
RECURSIVE ReplaceAll(_, _, _)
ReplaceAll(s, old, new) ==
    IF s = <<>> THEN <<>>
    ELSE IF OccursAt(s, old, 1)
         THEN new \o ReplaceAll(From(s, Len(old) + 1), old, new)
         ELSE <<s[1]>> \o ReplaceAll(Tail(s), old, new)

\* "".join(lines)
RECURSIVE Join(_)
Join(lines) == IF lines = <<>> THEN <<>> ELSE Head(lines) \o Join(Tail(lines))

\* str(n) for a non-negative integer: its decimal digits
DigitChars == <<"0","1","2","3","4","5","6","7","8","9">>
RECURSIVE Str(_)
Str(n) == IF n < 10 THEN <<DigitChars[n + 1]>>
          ELSE Str(n \div 10) \o <<DigitChars[(n % 10) + 1]>>

(***************************************************************************)
(* Log Summarizer                                                          *)
(***************************************************************************)

\* the literal "no changes" of _summarize_unit_logs
NoChanges == <<"n","o"," ","c","h","a","n","g","e","s">>

\* the literal ".terragrunt-stack/" of _collect_unit_entries
StackMarker == <<".","t","e","r","r","a","g","r","u","n","t","-","s","t","a","c","k","/">>

\* the literal "tofu:" of TOFU_RE
TofuTag == <<"t","o","f","u",":">>

\* index of the first character at or after i that satisfies/doesn't satisfy
\* membership in S (Len(s) + 1 when there is none)
FirstIn(s, i, S) ==
    IF \E k \in i..Len(s) : s[k] \in S
    THEN CHOOSE k \in i..Len(s) : s[k] \in S /\ \A j \in i..(k-1) : s[j] \notin S
    ELSE Len(s) + 1
FirstNotIn(s, i, S) ==
    IF \E k \in i..Len(s) : s[k] \notin S
    THEN CHOOSE k \in i..Len(s) : s[k] \notin S /\ \A j \in i..(k-1) : s[j] \in S
    ELSE Len(s) + 1

\* TOFU_RE = .*\[(?P<module>[^\]]+)\]\s+tofu:\s(?P<message>.*)
\* The pattern matches with its "[" at position p: only non-newline characters
\* before p, a non-empty module up to the next "]", one or more whitespace
\* characters, "tofu:", one whitespace character.
TofuClose(s, p) == FirstIn(s, p + 1, {"]"})
TofuTagAt(s, p) == FirstNotIn(s, TofuClose(s, p) + 1, Whitespace)
TofuMatchesAt(s, p) ==
    /\ s[p] = "["
    /\ \A j \in 1..(p-1) : s[j] /= "\n"
    /\ TofuClose(s, p) <= Len(s)
    /\ TofuClose(s, p) >= p + 2
    /\ TofuTagAt(s, p) >= TofuClose(s, p) + 2
    /\ OccursAt(s, TofuTag, TofuTagAt(s, p))
    /\ TofuTagAt(s, p) + 5 <= Len(s)
    /\ s[TofuTagAt(s, p) + 5] \in Whitespace

\* TOFU_RE.match(ln) succeeds
TofuMatches(s) == \E p \in 1..Len(s) : TofuMatchesAt(s, p)

\* the leading .* is greedy: the match uses the last position that matches
TofuPos(s) == CHOOSE p \in 1..Len(s) :
                  /\ TofuMatchesAt(s, p)
                  /\ \A q \in (p+1)..Len(s) : ~ TofuMatchesAt(s, q)

\* m.group("module")
TofuModule(s) == SubSeq(s, TofuPos(s) + 1, TofuClose(s, TofuPos(s)) - 1)

\* m.group("message"): the rest of the line, up to a newline
TofuMessage(s) ==
    LET b == TofuTagAt(s, TofuPos(s)) + 6
    IN  SubSeq(s, b, FirstIn(s, b, {"\n"}) - 1)

\* m.group("module").replace(".terragrunt-stack/", "")
UnitName(module) == ReplaceAll(module, StackMarker, <<>>)

\* a variant of the grouping that starts a new entry for every message
AppendEntryNoGroup(entries, unit, msg) ==
    Append(entries, [unit |-> unit, msgs |-> <<msg>>])

\* a variant of the grouping that keeps one copy of a repeated message
AppendEntryDedup(entries, unit, msg) ==
    IF \E i \in 1..Len(entries) : entries[i].unit = unit
    THEN [i \in 1..Len(entries) |->
             IF entries[i].unit = unit /\ \A k \in 1..Len(entries[i].msgs) : entries[i].msgs[k] /= msg
             THEN [unit |-> unit, msgs |-> Append(entries[i].msgs, msg)]
             ELSE entries[i]]
    ELSE Append(entries, [unit |-> unit, msgs |-> <<msg>>])

\* entries[unit].append(message) on an insertion-ordered dict, modelled as a
\* sequence of [unit, msgs] records
AppendEntry(entries, unit, msg) ==
    IF \E i \in 1..Len(entries) : entries[i].unit = unit
    THEN [i \in 1..Len(entries) |->
             IF entries[i].unit = unit
             THEN [unit |-> unit, msgs |-> Append(entries[i].msgs, msg)]
             ELSE entries[i]]
    ELSE Append(entries, [unit |-> unit, msgs |-> <<msg>>])

\* _collect_unit_entries: fold the file's lines, first to last
RECURSIVE CollectFrom(_, _)
CollectFrom(entries, lines) ==
    IF lines = <<>> THEN entries
    ELSE LET l == Head(lines)
         IN  IF ~ TofuMatches(l)
             THEN CollectFrom(entries, Tail(lines))
             ELSE CollectFrom(AppendEntry(entries, UnitName(TofuModule(l)), TofuMessage(l)),
                              Tail(lines))

CollectUnitEntries(lines) == CollectFrom(<<>>, lines)

\* a variant of _normalize_diff_line that rewrites the marker where it stands
NormalizeDiffLineInPlace(line) ==
    LET stripped == LStrip(line)
    IN  IF StartsWith(stripped, <<"~">>)
        THEN ReplaceFirst(line, stripped, <<"!">> \o Tail(stripped))
        ELSE line

\* _normalize_diff_line: the replace table is tried in the order ~, +, -
DiffMarkers == << <<"~", "!">>, <<"+", "+">>, <<"-", "-">> >>

NormalizeDiffLine(line) ==
    LET stripped == LStrip(line)
        hits == {k \in 1..Len(DiffMarkers) : StartsWith(stripped, <<DiffMarkers[k][1]>>)}
    IN  IF hits = {} THEN line
        ELSE LET k == CHOOSE h \in hits : \A g \in hits : h <= g
             IN  <<DiffMarkers[k][2]>> \o ReplaceFirst(line, stripped, Tail(stripped))

\* a variant of the stability test that looks at the unit's first message only
IsStableUnitFirstOnly(msgs) ==
    msgs /= <<>> /\ StartsWith(Lower(Strip(msgs[1])), NoChanges)

\* any(msg.strip().lower().startswith("no changes") for msg in msgs)
IsStableUnit(msgs) ==
    \E i \in 1..Len(msgs) : StartsWith(Lower(Strip(msgs[i])), NoChanges)

\* the loop of _summarize_unit_logs over grouped.items()
RECURSIVE SummarizeFrom(_, _)
SummarizeFrom(acc, grouped) ==
    IF grouped = <<>> THEN acc
    ELSE LET g == Head(grouped)
         IN  IF IsStableUnit(g.msgs)
             THEN SummarizeFrom([acc EXCEPT !.stable = Append(@, g.unit)], Tail(grouped))
             ELSE SummarizeFrom(
                      [acc EXCEPT !.diffs = Append(@,
                          [unit |-> g.unit,
                           lines |-> [i \in 1..Len(g.msgs) |-> NormalizeDiffLine(g.msgs[i])]])],
                      Tail(grouped))

\* the value a missing log file gives: None
NoSummary == [found |-> FALSE, stable |-> <<>>, diffs |-> <<>>]

\* _summarize_unit_logs(log_file)
SummarizeUnitLogs(exists, lines) ==
    IF ~ exists THEN NoSummary
    ELSE SummarizeFrom([found |-> TRUE, stable |-> <<>>, diffs |-> <<>>],
                       CollectUnitEntries(lines))

(***************************************************************************)
(* Bounds and inputs                                                       *)
(***************************************************************************)

\* lines the child processes of one behaviour write in total
MaxLines == 3
\* capacity of an OS pipe, in lines: a write to a full pipe blocks
PipeCap == 1
\* commands run one after the other in one behaviour
MaxCmds == 2
\* lines of a log file given to the summarizer or to the report command
MaxLogLines == 2

Streams == {"out", "err"}

\* exit codes a child process ends with
ExitCodes == {0, 1, 2, 3}

\* "[<module>] tofu: <message>\n" after a prefix
TofuLine(prefix, module, msg) ==
    prefix \o <<"[">> \o module \o <<"]", " ">> \o TofuTag \o <<" ">> \o msg \o <<"\n">>

LineStable == TofuLine(<<>>, <<"a">>, <<"N","o"," ","c","h","a","n","g","e","s",".">>)
LineDiff == TofuLine(<<>>, <<"b">>, <<" "," ","~"," ","x">>)
LineAdd == TofuLine(<<"1","2",":","0","0"," ">>, <<"b">>, <<"+"," ","y">>)
LineJunk == <<"j","u","n","k","\n">>

\* the lines the child processes write: the k-th line written in a behaviour
\* is ChildLine(k), so that no two lines near each other are alike
LineTable == <<LineStable, LineDiff, LineAdd, LineJunk>>
ChildLine(k) == LineTable[((k - 1) % Len(LineTable)) + 1]

\* what the child does next: write a line to stream s, or exit
ChildOps == {[s |-> s] : s \in Streams}
ExitOp == [s |-> "exit"]
NoOp == [s |-> "none"]
NextOps(left) == IF left > 0 THEN ChildOps \cup {ExitOp} ELSE {ExitOp}

(***************************************************************************)
(* Report Renderer                                                         *)
(***************************************************************************)

\* the literal "terragrunt-exit-code=" of _write_exit_marker and plan_github_pr_comment
ExitMarker == <<"t","e","r","r","a","g","r","u","n","t","-","e","x","i","t","-","c","o","d","e","=">>

\* f"terragrunt-exit-code={code}\n"
ExitMarkerLine(code) == ExitMarker \o Str(code) \o <<"\n">>

\* GITHUB_PR_COMMENT_TMPL rendered: the flat message of the clean and error
\* branches, or the unit listing of the else branch ("None" where a list is empty)
Render(state, diffs) ==
    IF state = "NO_CHANGES"
    THEN [message |-> "No changes detected.", unchanged |-> <<>>, changed |-> <<>>]
    ELSE IF state = "HAS_ERROR"
    THEN [message |-> "Errors found. See logs.", unchanged |-> <<>>, changed |-> <<>>]
    ELSE [message |-> "Unchanged units: / Changed units:",
          unchanged |-> diffs.stable, changed |-> diffs.diffs]

\* the if / elif chain of plan_github_pr_comment over the file's content
ReportState(content) ==
    IF Contains(content, ExitMarker \o <<"0">>) THEN "NO_CHANGES"
    ELSE IF Contains(content, ExitMarker \o <<"1">>) THEN "HAS_ERROR"
    ELSE IF Contains(content, ExitMarker \o <<"2">>) THEN "HAS_CHANGES"
    ELSE "unexpected"

\* the report command raises typer.BadParameter
ReportRejects(exists, lines) ==
    \/ ~ exists
    \/ ~ Contains(Join(lines), ExitMarker)
    \/ ReportState(Join(lines)) = "unexpected"

(***************************************************************************)
(* State                                                                   *)
(***************************************************************************)

NoResult == [code |-> -1, stdout |-> <<>>, stderr |-> <<>>]
NoReport == [message |-> "", unchanged |-> <<>>, changed |-> <<>>]
EmptyStreams == [s \in Streams |-> <<>>]

\* how a command ended.  kind: "running", "ok" (returned normally), "exit"
\* (typer.Exit with code), "bad_parameter" (typer.BadParameter; its exit code
\* is the CLI library's).  state: the ChangeState / report state.  childCode
\* and dumped are history: the plan or apply process's exit code, and whether
\* Runner.plan wrote the captured stderr to sys.stderr.
Status(name, log, kind, code, state, childCode, dumped) ==
    [cmd |-> name, log |-> log, kind |-> kind, code |-> code, state |-> state,
     childCode |-> childCode, dumped |-> dumped]

NoStatus == Status("none", FALSE, "ok", 0, "none", -1, FALSE)

\* everything but the log file
InitRest ==
    /\ mpc = "idle"
    /\ cmd = [name |-> "none", log |-> FALSE, stale |-> "none"]
    /\ call = "none"
    /\ ncmds = 0
    /\ child = "none"
    /\ cnext = NoOp
    /\ budget = MaxLines
    /\ retcode = -1
    /\ emitted = EmptyStreams
    /\ pipe = EmptyStreams
    /\ tpc = [s \in Streams |-> "idle"]
    /\ ln = EmptyStreams
    /\ collector = EmptyStreams
    /\ echoed = [s \in Streams |-> 0]
    /\ log_fh = "none"
    /\ pending = <<>>
    /\ logStart = 0
    /\ result = NoResult
    /\ returned = NoResult
    /\ outExists = FALSE
    /\ outFile = NoReport
    /\ exitStatus = NoStatus
    /\ summary = NoSummary

\* no command has run yet and there is no log file
Init ==
    /\ InitRest
    /\ logExists = FALSE
    /\ logFile = <<>>

\* the variables of one run_live invocation
relayVars == <<child, cnext, retcode, emitted, pipe, tpc, ln, collector, echoed,
               log_fh, pending, logStart, returned>>
\* the files
fileVars == <<logExists, logFile, outExists, outFile>>

\* the locals of a finished command go out of scope
DropLocals ==
    /\ child' = "none"
    /\ cnext' = NoOp
    /\ retcode' = -1
    /\ emitted' = EmptyStreams
    /\ pipe' = EmptyStreams
    /\ tpc' = [s \in Streams |-> "idle"]
    /\ ln' = EmptyStreams
    /\ collector' = EmptyStreams
    /\ echoed' = [s \in Streams |-> 0]
    /\ log_fh' = "none"
    /\ pending' = <<>>
    /\ logStart' = 0
    /\ result' = NoResult
    /\ returned' = NoResult
    /\ call' = "none"
    /\ cmd' = [name |-> "none", log |-> FALSE, stale |-> "none"]

\* run_live's log_file argument: Runner.plan passes its own, Runner.apply none
LogGiven == cmd.log /\ call \in {"plan", "show"}
\* run_live's quiet argument: only the show invocation is quiet
Quiet == call = "show"

(***************************************************************************)
(* The child process                                                       *)
(***************************************************************************)

\* the child writes one line to one of its streams; the write blocks while
\* the pipe is full.  It then decides what it does next.
ChildWrite ==
    /\ child = "running"
    /\ cnext \in ChildOps
    /\ Len(pipe[cnext.s]) < PipeCap
    /\ pipe' = [pipe EXCEPT ![cnext.s] = Append(@, ChildLine(MaxLines - budget + 1))]
    /\ emitted' = [emitted EXCEPT ![cnext.s] = Append(@, ChildLine(MaxLines - budget + 1))]
    /\ budget' = budget - 1
    /\ \E n \in NextOps(budget - 1) : cnext' = n
    /\ UNCHANGED <<mpc, cmd, call, ncmds, child, retcode, tpc, ln, collector, echoed,
                   log_fh, pending, logStart, result, returned, exitStatus, summary>>
    /\ UNCHANGED fileVars

\* the child exits with some code; its ends of the pipes close
ChildExit ==
    /\ child = "running"
    /\ cnext = ExitOp
    /\ child' = "exited"
    /\ cnext' = NoOp
    /\ \E c \in ExitCodes : retcode' = c
    /\ UNCHANGED <<mpc, cmd, call, ncmds, budget, emitted, pipe, tpc, ln, collector, echoed,
                   log_fh, pending, logStart, result, returned, exitStatus, summary>>
    /\ UNCHANGED fileVars

(***************************************************************************)
(* run_live: the drain threads                                             *)
(***************************************************************************)

\* pipe.readline() returns a line: collector.append(ln), the echo unless quiet
DrainLine(s) ==
    /\ tpc[s] = "read"
    /\ pipe[s] /= <<>>
    /\ ln' = [ln EXCEPT ![s] = Head(pipe[s])]
    /\ pipe' = [pipe EXCEPT ![s] = Tail(@)]
    /\ collector' = [collector EXCEPT ![s] = Append(@, Head(pipe[s]))]
    /\ echoed' = [echoed EXCEPT ![s] = IF Quiet THEN @ ELSE @ + 1]
    /\ tpc' = [tpc EXCEPT ![s] = IF log_fh /= "none" THEN "write" ELSE "read"]
    /\ UNCHANGED <<mpc, cmd, call, ncmds, child, cnext, budget, retcode, emitted,
                   log_fh, pending, logStart, result, returned, exitStatus, summary>>
    /\ UNCHANGED fileVars

\* pipe.readline() returns "": the pipe is empty and the child has exited
DrainEof(s) ==
    /\ tpc[s] = "read"
    /\ pipe[s] = <<>>
    /\ child = "exited"
    /\ tpc' = [tpc EXCEPT ![s] = "done"]
    /\ UNCHANGED <<mpc, cmd, call, ncmds, child, cnext, budget, retcode, emitted, pipe, ln,
                   collector, echoed, log_fh, pending, logStart, result, returned,
                   exitStatus, summary>>
    /\ UNCHANGED fileVars

\* a variant of log_fh.write(ln) in which the line replaces the handle's buffer
DrainLogWriteClobber(s) ==
    /\ tpc[s] = "write"
    /\ pending' = <<ln[s]>>
    /\ tpc' = [tpc EXCEPT ![s] = "flush"]
    /\ UNCHANGED <<mpc, cmd, call, ncmds, child, cnext, budget, retcode, emitted, pipe, ln,
                   collector, echoed, log_fh, logStart, result, returned, exitStatus, summary>>
    /\ UNCHANGED fileVars

\* log_fh.write(ln): the line joins the handle's buffer
DrainLogWrite(s) ==
    /\ tpc[s] = "write"
    /\ pending' = Append(pending, ln[s])
    /\ tpc' = [tpc EXCEPT ![s] = "flush"]
    /\ UNCHANGED <<mpc, cmd, call, ncmds, child, cnext, budget, retcode, emitted, pipe, ln,
                   collector, echoed, log_fh, logStart, result, returned, exitStatus, summary>>
    /\ UNCHANGED fileVars

\* log_fh.flush(): the handle's buffer goes to the file
DrainLogFlush(s) ==
    /\ tpc[s] = "flush"
    /\ logFile' = logFile \o pending
    /\ pending' = <<>>
    /\ tpc' = [tpc EXCEPT ![s] = "read"]
    /\ UNCHANGED <<mpc, cmd, call, ncmds, child, cnext, budget, retcode, emitted, pipe, ln,
                   collector, echoed, log_fh, logStart, result, returned, exitStatus, summary,
                   logExists, outExists, outFile>>

Drain(s) == DrainLine(s) \/ DrainEof(s) \/ DrainLogWrite(s) \/ DrainLogFlush(s)

(***************************************************************************)
(* run_live: the main thread                                               *)
(***************************************************************************)

\* sp.Popen(...): the child starts; out_lines = [], err_lines = []
RunLivePopen ==
    /\ mpc = "popen"
    /\ child' = "running"
    /\ \E n \in NextOps(budget) : cnext' = n
    /\ retcode' = -1
    /\ emitted' = EmptyStreams
    /\ pipe' = EmptyStreams
    /\ collector' = EmptyStreams
    /\ ln' = EmptyStreams
    /\ tpc' = [s \in Streams |-> "idle"]
    /\ echoed' = [s \in Streams |-> 0]
    /\ mpc' = "open"
    /\ UNCHANGED <<cmd, call, ncmds, budget, log_fh, pending, logStart, result, returned,
                   exitStatus, summary>>
    /\ UNCHANGED fileVars

\* if log_file: mkdir, touch, open("a")  else: log_fh = None
RunLiveOpenLog ==
    /\ mpc = "open"
    /\ IF LogGiven
       THEN /\ logExists' = TRUE
            /\ log_fh' = "open"
            /\ logStart' = Len(logFile)
       ELSE /\ log_fh' = "none"
            /\ UNCHANGED <<logExists, logStart>>
    /\ pending' = <<>>
    /\ mpc' = "start_out"
    /\ UNCHANGED <<cmd, call, ncmds, child, cnext, budget, retcode, emitted, pipe, tpc, ln,
                   collector, echoed, result, returned, exitStatus, summary,
                   logFile, outExists, outFile>>

\* t_out.start()
RunLiveStartOut ==
    /\ mpc = "start_out"
    /\ tpc' = [tpc EXCEPT !["out"] = "read"]
    /\ mpc' = "start_err"
    /\ UNCHANGED <<cmd, call, ncmds, child, cnext, budget, retcode, emitted, pipe, ln,
                   collector, echoed, log_fh, pending, logStart, result, returned,
                   exitStatus, summary>>
    /\ UNCHANGED fileVars

\* a variant that drains sequentially: t_err starts once t_out has finished
RunLiveStartErrAfterOut ==
    /\ mpc = "start_err"
    /\ tpc["out"] = "done"
    /\ tpc' = [tpc EXCEPT !["err"] = "read"]
    /\ mpc' = "wait"
    /\ UNCHANGED <<cmd, call, ncmds, child, cnext, budget, retcode, emitted, pipe, ln,
                   collector, echoed, log_fh, pending, logStart, result, returned,
                   exitStatus, summary>>
    /\ UNCHANGED fileVars

\* t_err.start()
RunLiveStartErr ==
    /\ mpc = "start_err"
    /\ tpc' = [tpc EXCEPT !["err"] = "read"]
    /\ mpc' = "wait"
    /\ UNCHANGED <<cmd, call, ncmds, child, cnext, budget, retcode, emitted, pipe, ln,
                   collector, echoed, log_fh, pending, logStart, result, returned,
                   exitStatus, summary>>
    /\ UNCHANGED fileVars

\* a variant without t_err.join()
RunLiveCanPassNoErrJoin ==
    \/ mpc = "wait" /\ child = "exited"
    \/ mpc = "join_out" /\ tpc["out"] = "done"
    \/ mpc = "join_err"

\* a variant without the joins: only the child's exit is waited for
RunLiveCanPassNoJoin ==
    /\ mpc \in {"wait", "join_out", "join_err"}
    /\ child = "exited"

\* proc.wait(), t_out.join(), t_err.join(): each blocks until its condition holds
RunLiveCanPass ==
    \/ mpc = "wait" /\ child = "exited"
    \/ mpc = "join_out" /\ tpc["out"] = "done"
    \/ mpc = "join_err" /\ tpc["err"] = "done"

RunLiveWaitJoin ==
    /\ RunLiveCanPass
    /\ mpc' = CASE mpc = "wait" -> "join_out"
                [] mpc = "join_out" -> "join_err"
                [] mpc = "join_err" -> "close"
    /\ UNCHANGED <<cmd, call, ncmds, budget, result, exitStatus, summary>>
    /\ UNCHANGED relayVars
    /\ UNCHANGED fileVars

\* if log_fh is not None: log_fh.flush(); log_fh.close()
RunLiveClose ==
    /\ mpc = "close"
    /\ IF log_fh = "open"
       THEN /\ logFile' = logFile \o pending
            /\ pending' = <<>>
            /\ log_fh' = "closed"
       ELSE UNCHANGED <<logFile, pending, log_fh>>
    /\ mpc' = "return"
    /\ UNCHANGED <<cmd, call, ncmds, child, cnext, budget, retcode, emitted, pipe, tpc, ln,
                   collector, echoed, logStart, result, returned, exitStatus, summary,
                   logExists, outExists, outFile>>

\* CommandResult(code=proc.returncode, stdout="".join(out_lines), stderr="".join(err_lines))
CommandResult ==
    [code |-> retcode, stdout |-> Join(collector["out"]), stderr |-> Join(collector["err"])]

\* return CommandResult(...): back in the caller, which keeps the plan
\* invocation's result and discards the show invocation's
RunLiveReturn ==
    /\ mpc = "return"
    /\ returned' = CommandResult
    /\ result' = IF call = "show" THEN result ELSE CommandResult
    /\ mpc' = CASE call = "plan" -> "plan_after"
                [] call = "show" -> "plan_marker"
                [] call = "apply" -> "apply_end"
    /\ UNCHANGED <<cmd, call, ncmds, child, cnext, budget, retcode, emitted, pipe, tpc, ln,
                   collector, echoed, log_fh, pending, logStart, exitStatus, summary>>
    /\ UNCHANGED fileVars

(***************************************************************************)
(* Runner.plan, Runner.apply                                               *)
(***************************************************************************)

\* whether the log file unlinked by Runner.plan held a marker line
Unlinked ==
    IF \E i \in 1..Len(logFile) : StartsWith(logFile[i], ExitMarker) THEN "sentinel"
    ELSE "none"

\* a variant of the start of the plan command that keeps an existing log file
PlanBeginNoUnlink(log) ==
    /\ mpc = "idle"
    /\ ncmds < MaxCmds
    /\ ncmds' = ncmds + 1
    /\ cmd' = [name |-> "plan", log |-> log,
               stale |-> IF log /\ logExists THEN Unlinked ELSE "none"]
    /\ call' = "plan"
    /\ exitStatus' = Status("plan", log, "running", -1, "none", -1, FALSE)
    /\ mpc' = "popen"
    /\ UNCHANGED <<budget, result, summary>>
    /\ UNCHANGED relayVars
    /\ UNCHANGED fileVars

\* the plan command starts: if log_file and log_file.exists(): log_file.unlink()
PlanBegin(log) ==
    /\ mpc = "idle"
    /\ ncmds < MaxCmds
    /\ ncmds' = ncmds + 1
    /\ cmd' = [name |-> "plan", log |-> log,
               stale |-> IF log /\ logExists THEN Unlinked ELSE "none"]
    /\ call' = "plan"
    /\ exitStatus' = Status("plan", log, "running", -1, "none", -1, FALSE)
    /\ IF log /\ logExists
       THEN logExists' = FALSE /\ logFile' = <<>>
       ELSE UNCHANGED <<logExists, logFile>>
    /\ mpc' = "popen"
    /\ UNCHANGED <<budget, result, summary, outExists, outFile>>
    /\ UNCHANGED relayVars

\* a variant that runs the show command and writes the marker without
\* testing log_file
PlanRunsShowAnyLog == result.code /= 1

\* if log_file and result.code != 1: run the show command, quiet, into the log
PlanRunsShow == cmd.log /\ result.code /= 1

PlanAfter ==
    /\ mpc = "plan_after"
    /\ IF PlanRunsShow
       THEN call' = "show" /\ mpc' = "popen"
       ELSE call' = call /\ mpc' = "plan_end"
    /\ UNCHANGED <<cmd, ncmds, budget, result, exitStatus, summary>>
    /\ UNCHANGED relayVars
    /\ UNCHANGED fileVars

\* _write_exit_marker(log_file, result.code): open("a"), write the marker line
WriteExitMarker ==
    /\ mpc = "plan_marker"
    /\ logExists' = TRUE
    /\ logFile' = Append(logFile, ExitMarkerLine(result.code))
    /\ mpc' = "plan_end"
    /\ UNCHANGED <<cmd, call, ncmds, budget, result, exitStatus, summary, outExists, outFile>>
    /\ UNCHANGED relayVars

\* the end of Runner.plan: ChangeState.CLEAN for 0, ChangeState.DIRTY for 2,
\* otherwise the captured stderr goes to sys.stderr when no log file was
\* given and typer.Exit(code=1) is raised
PlanStatus ==
    IF result.code = 0
    THEN Status("plan", cmd.log, "ok", 0, "NO_CHANGES", result.code, FALSE)
    ELSE IF result.code = 2
    THEN Status("plan", cmd.log, "ok", 0, "HAS_CHANGES", result.code, FALSE)
    ELSE Status("plan", cmd.log, "exit", 1, "none", result.code,
                ~ cmd.log /\ result.stderr /= <<>>)

PlanEnd ==
    /\ mpc = "plan_end"
    /\ exitStatus' = PlanStatus
    /\ mpc' = "idle"
    /\ DropLocals
    /\ UNCHANGED <<ncmds, budget, summary>>
    /\ UNCHANGED fileVars

\* the apply command starts: run_live(cmd) without a log file
ApplyBegin ==
    /\ mpc = "idle"
    /\ ncmds < MaxCmds
    /\ ncmds' = ncmds + 1
    /\ cmd' = [name |-> "apply", log |-> FALSE, stale |-> "none"]
    /\ call' = "apply"
    /\ exitStatus' = Status("apply", FALSE, "running", -1, "none", -1, FALSE)
    /\ mpc' = "popen"
    /\ UNCHANGED <<budget, result, summary>>
    /\ UNCHANGED relayVars
    /\ UNCHANGED fileVars

\* if result.code != 0: raise typer.Exit(code=result.code)
ApplyStatus ==
    IF result.code /= 0
    THEN Status("apply", FALSE, "exit", result.code, "none", result.code, FALSE)
    ELSE Status("apply", FALSE, "ok", 0, "none", result.code, FALSE)

ApplyEnd ==
    /\ mpc = "apply_end"
    /\ exitStatus' = ApplyStatus
    /\ mpc' = "idle"
    /\ DropLocals
    /\ UNCHANGED <<ncmds, budget, summary>>
    /\ UNCHANGED fileVars

(***************************************************************************)
(* plan-github-pr-comment                                                  *)
(***************************************************************************)

\* the whole command: reject, or summarize, render and write the output file
PlanGithubPrComment ==
    /\ mpc = "idle"
    /\ ncmds < MaxCmds
    /\ ncmds' = ncmds + 1
    /\ IF ReportRejects(logExists, logFile)
       THEN /\ exitStatus' = Status("report", TRUE, "bad_parameter", -1, "none", -1, FALSE)
            /\ UNCHANGED <<summary, outExists, outFile>>
       ELSE /\ summary' = SummarizeUnitLogs(logExists, logFile)
            /\ outFile' = Render(ReportState(Join(logFile)), summary')
            /\ outExists' = TRUE
            /\ exitStatus' = Status("report", TRUE, "ok", 0, ReportState(Join(logFile)),
                                    -1, FALSE)
    /\ UNCHANGED <<mpc, cmd, call, budget, result, logExists, logFile>>
    /\ UNCHANGED relayVars

(***************************************************************************)
(* Specifications                                                          *)
(***************************************************************************)

Main ==
    \/ \E log \in BOOLEAN : PlanBegin(log)
    \/ ApplyBegin
    \/ PlanGithubPrComment
    \/ RunLivePopen
    \/ RunLiveOpenLog
    \/ RunLiveStartOut
    \/ RunLiveStartErr
    \/ RunLiveWaitJoin
    \/ RunLiveClose
    \/ RunLiveReturn
    \/ PlanAfter
    \/ WriteExitMarker
    \/ PlanEnd
    \/ ApplyEnd

Child == ChildWrite \/ ChildExit

Next ==
    \/ Main
    \/ Child
    \/ \E s \in Streams : Drain(s)

\* commands run one after the other, each with its child process and threads
Spec == Init /\ [][Next]_vars

\* the scheduler runs every thread that can take a step, and the child
\* process keeps running until it exits
FairSpec ==
    /\ Spec
    /\ WF_vars(Main)
    /\ WF_vars(Child)
    /\ \A s \in Streams : WF_vars(Drain(s))

\* the main thread when no second command is started
MainFirst == (mpc = "idle" => ncmds = 0) /\ Main

NextFirst ==
    \/ MainFirst
    \/ Child
    \/ \E s \in Streams : Drain(s)

\* one command, with its child processes and threads, under the same
\* scheduling as FairSpec
FairFirst ==
    /\ Init
    /\ [][NextFirst]_vars
    /\ WF_vars(MainFirst)
    /\ WF_vars(Child)
    /\ \A s \in Streams : WF_vars(Drain(s))

(***************************************************************************)
(* The summarizer and the report command on given log files                *)
(***************************************************************************)

\* all sequences of at most n elements of S
SeqsUpTo(S, n) == UNION {[1..k -> S] : k \in 0..n}

UnitA == <<"a">>
UnitB == <<"b">>
UnitStackA == StackMarker \o <<"a">>

\* messages of log lines given to the summarizer
SummaryMessages ==
    { <<"N","o"," ","c","h","a","n","g","e","s",".">>,
      <<" "," ","n","o"," ","c","h","a","n","g","e","s">>,
      <<"N","O"," ","C","H","A","N","G","E","S"," "," ">>,
      <<"x"," ","n","o"," ","c","h","a","n","g","e","s">>,
      <<"n","o"," ","c","h","a","n","g","e">>,
      <<"~"," ","x">>,
      <<" "," ","~"," ","x">>,
      <<"+"," ","y">>,
      <<" ","\t","+"," ","y">>,
      <<"-"," ","z">>,
      <<" "," ","-"," ","~","z">>,
      <<"#"," ","~","+">>,
      <<>> }

\* log lines given to the summarizer
SummaryLines ==
    {TofuLine(<<>>, UnitA, m) : m \in SummaryMessages}
    \cup {LineStable, LineDiff, LineAdd, LineJunk,
          TofuLine(<<>>, UnitStackA, <<"~"," ","x">>),
          TofuLine(<<"[","a","]"," ","t","o","f","u",":"," ">>, UnitB, <<"+"," ","y">>),
          <<"[","a","]"," ","t","o","f","u",":","x","\n">>}

InitSummary ==
    /\ InitRest
    /\ logExists \in BOOLEAN
    /\ logFile \in SeqsUpTo(SummaryLines, MaxLogLines)
    /\ ~ logExists => logFile = <<>>

\* a call of _summarize_unit_logs(log_file)
SummarizeLog ==
    /\ mpc = "idle"
    /\ summary' = SummarizeUnitLogs(logExists, logFile)
    /\ mpc' = "summarized"
    /\ UNCHANGED <<cmd, call, ncmds, budget, result, exitStatus>>
    /\ UNCHANGED relayVars
    /\ UNCHANGED fileVars

\* the summarizer applied to each given log file
SpecSummary == InitSummary /\ [][SummarizeLog]_vars

\* exit codes of the marker lines of log files given to the report command
ReportCodes == {0, 1, 2, 3, 10, 20, 127}

\* a child line that contains the marker text
LineEcho == TofuLine(<<>>, UnitA, ExitMarker \o <<"0">>)

\* log lines given to the report command
ReportLines == {LineStable, LineDiff, LineEcho} \cup {ExitMarkerLine(c) : c \in ReportCodes}

InitReport ==
    /\ InitRest
    /\ logExists \in BOOLEAN
    /\ logFile \in SeqsUpTo(ReportLines, MaxLogLines)
    /\ ~ logExists => logFile = <<>>

\* the report command applied to each given log file
SpecReport == InitReport /\ [][PlanGithubPrComment]_vars

(***************************************************************************)
(* Properties                                                              *)
(***************************************************************************)

\* run_live has just returned to its caller
AfterReturn == mpc \in {"plan_after", "plan_marker", "apply_end"}

\* a command has ended and its status is known
Ended(name) == mpc = "idle" /\ exitStatus.cmd = name /\ exitStatus.kind /= "running"

\* l is an interleaving of a and b: every element of a and of b exactly once,
\* each of a and b in its own order
RECURSIVE IsShuffle(_, _, _)
IsShuffle(l, a, b) ==
    IF l = <<>> THEN a = <<>> /\ b = <<>>
    ELSE \/ a /= <<>> /\ Head(a) = Head(l) /\ IsShuffle(Tail(l), Tail(a), b)
         \/ b /= <<>> /\ Head(b) = Head(l) /\ IsShuffle(Tail(l), a, Tail(b))

\* the lines appended to the log file since this invocation opened it
LoggedHere == SubSeq(logFile, logStart + 1, Len(logFile))

\* C1: when run_live returns, the result's stdout is the concatenation of the
\* lines the child wrote to stdout, in the order written, and its stderr that
\* of the lines written to stderr: nothing lost, duplicated, reordered or moved
C1_CaptureIsEmission ==
    AfterReturn =>
        /\ returned.stdout = Join(emitted["out"])
        /\ returned.stderr = Join(emitted["err"])

\* C1 witness: a child wrote two lines to stdout and one to stderr, and run_live returned
C1_Witness ==
    /\ AfterReturn
    /\ Len(emitted["out"]) = 2
    /\ Len(emitted["err"]) = 1
    /\ returned.stdout /= <<>>
    /\ returned.stderr /= <<>>

\* C2: every run_live invocation that has launched its child eventually
\* returns, whatever the child writes to which stream before it exits
C2_RunLiveReturns == (mpc = "open") ~> AfterReturn

\* C2 witness: the child wrote more lines to stdout than the pipe holds and
\* none to stderr, and run_live returned
C2_Witness ==
    /\ AfterReturn
    /\ Len(emitted["out"]) > PipeCap
    /\ emitted["err"] = <<>>

\* C3: when run_live, given a log file, returns, the lines it added to the log
\* are an interleaving of the child's stdout lines and stderr lines: each line
\* exactly once, each stream in the order written
C3_LogIsInterleaving ==
    (AfterReturn /\ log_fh = "closed") =>
        IsShuffle(LoggedHere, emitted["out"], emitted["err"])

\* C3 witness: with a log file, a stderr line was logged between two stdout lines
C3_Witness ==
    /\ AfterReturn
    /\ log_fh = "closed"
    /\ Len(emitted["out"]) = 2
    /\ Len(emitted["err"]) = 1
    /\ Len(LoggedHere) = 3
    /\ LoggedHere[2] = emitted["err"][1]

\* C4 (as claimed): the two drain threads are never both between their
\* log_fh.write and the end of their log_fh.flush
C4_WritesExclusive == ~ (tpc["out"] = "flush" /\ tpc["err"] = "flush")

\* a sentinel line: terragrunt-exit-code=<code>
IsSentinel(line) == StartsWith(line, ExitMarker)
Sentinels(lines) == {i \in 1..Len(lines) : IsSentinel(lines[i])}

\* C5 (as claimed): after a plan run with a log file, whatever the plan
\* process's exit code, the log holds exactly one sentinel line, it carries
\* that code and it is the last line
C5_SentinelAfterPlan ==
    (Ended("plan") /\ exitStatus.log) =>
        /\ logExists
        /\ Sentinels(logFile) = {Len(logFile)}
        /\ logFile /= <<>>
        /\ logFile[Len(logFile)] = ExitMarkerLine(exitStatus.childCode)

\* the report the claim expects for a plan exit code
ExpectedMessage(c) ==
    CASE c = 0 -> "No changes detected."
      [] c = 1 -> "Errors found. See logs."
      [] c = 2 -> "Unchanged units: / Changed units:"

\* C6 (as claimed): the report command run right after a plan run with a log
\* file whose plan process exited with 0, 1 or 2 renders the clean message,
\* the error message or the unit listing, respectively
C6_ReportAgreesWithPlan ==
    [][(/\ Ended("plan")
        /\ exitStatus.log
        /\ exitStatus.childCode \in {0, 1, 2}
        /\ exitStatus'.cmd = "report")
       => (/\ exitStatus'.kind = "ok"
           /\ outExists'
           /\ outFile'.message = ExpectedMessage(exitStatus.childCode))]_vars

\* C7 (as claimed): a log none of whose lines is the sentinel of code 0, 1 or
\* 2 (its sentinel carries another code, or it has none) is rejected
C7_OnlyKnownCodesAccepted ==
    (/\ Ended("report")
     /\ \A i \in 1..Len(logFile) :
            logFile[i] \notin {ExitMarkerLine(0), ExitMarkerLine(1), ExitMarkerLine(2)})
    => exitStatus.kind = "bad_parameter"

\* the child's exit code is a failure for the command
ChildFailed ==
    \/ exitStatus.cmd = "apply" /\ exitStatus.childCode /= 0
    \/ exitStatus.cmd = "plan" /\ exitStatus.childCode \notin {0, 2}

\* C8 (as claimed): when the terragrunt process fails, plan and apply both
\* exit with the process's exit code
C8_ExitCodePropagates ==
    ((Ended("plan") \/ Ended("apply")) /\ ChildFailed) =>
        /\ exitStatus.kind = "exit"
        /\ exitStatus.code = exitStatus.childCode

\* a message begins with "no changes" after its leading whitespace, letter
\* case ignored
BeginsNoChanges(m) ==
    LET t == LStrip(m)
    IN  /\ Len(t) >= Len(NoChanges)
        /\ \A k \in 1..Len(NoChanges) : LowerChar(t[k]) = NoChanges[k]

InSeq(x, seq) == \E i \in 1..Len(seq) : seq[i] = x

\* C9: a unit is listed stable exactly when one of its messages, whichever,
\* begins with "no changes"; every other unit is a key of the diff mapping
C9_StableIffAnyNoChanges ==
    (mpc = "summarized" /\ logExists) =>
        \A i \in 1..Len(CollectUnitEntries(logFile)) :
            LET g == CollectUnitEntries(logFile)[i]
            IN  /\ InSeq(g.unit, summary.stable)
                     <=> \E k \in 1..Len(g.msgs) : BeginsNoChanges(g.msgs[k])
                /\ InSeq(g.unit, summary.stable)
                     <=> ~ \E d \in 1..Len(summary.diffs) : summary.diffs[d].unit = g.unit

\* C9 witness: a unit whose second message, not its first, begins with
\* "no changes" was listed stable
C9_Witness ==
    /\ mpc = "summarized"
    /\ \E i \in 1..Len(CollectUnitEntries(logFile)) :
           LET g == CollectUnitEntries(logFile)[i]
           IN  /\ Len(g.msgs) = 2
               /\ ~ BeginsNoChanges(g.msgs[1])
               /\ BeginsNoChanges(g.msgs[2])
               /\ InSeq(g.unit, summary.stable)

\* the leading whitespace of a line
Lead(line) == SubSeq(line, 1, Len(line) - Len(LStrip(line)))

\* a line with its marker, if any, moved to the front (~ becoming !), its
\* leading whitespace and the text after the marker following
MarkerFirst(line) ==
    LET body == LStrip(line)
    IN  IF body /= <<>> /\ body[1] \in {"~", "+", "-"}
        THEN <<IF body[1] = "~" THEN "!" ELSE body[1]>> \o Lead(line) \o Tail(body)
        ELSE line

\* a line with a ~ marker replaced by ! where it stands, every other line unchanged
MarkerInPlace(line) ==
    LET body == LStrip(line)
    IN  IF body /= <<>> /\ body[1] = "~"
        THEN Lead(line) \o <<"!">> \o Tail(body)
        ELSE line

\* every changed unit has as many lines as it has messages
ChangedLinesComplete ==
    \A i \in 1..Len(CollectUnitEntries(logFile)) :
        \A d \in 1..Len(summary.diffs) :
            summary.diffs[d].unit = CollectUnitEntries(logFile)[i].unit =>
                Len(summary.diffs[d].lines) = Len(CollectUnitEntries(logFile)[i].msgs)

\* the pairs <<message, line>> of the changed units
ChangedPairs ==
    UNION { UNION { IF summary.diffs[d].unit = CollectUnitEntries(logFile)[i].unit
                    THEN { <<CollectUnitEntries(logFile)[i].msgs[k], summary.diffs[d].lines[k]>> :
                             k \in 1..Len(summary.diffs[d].lines) }
                    ELSE {}
                    : d \in 1..Len(summary.diffs) }
            : i \in 1..Len(CollectUnitEntries(logFile)) }

\* C10 (as claimed): each line of a changed unit is its message with a ~
\* marker replaced by ! in place, and every other message unchanged
C10_MarkerReplacedInPlace ==
    (mpc = "summarized" /\ logExists) =>
        /\ ChangedLinesComplete
        /\ \A pr \in ChangedPairs : pr[2] = MarkerInPlace(pr[1])

\* C10 (amended): each line of a changed unit is its message with the marker
\* ~, + or - moved to the front of the line (~ becoming !), followed by the
\* leading whitespace and the text after the marker; other messages unchanged
C10_MarkerMovedToFront ==
    (mpc = "summarized" /\ logExists) =>
        /\ ChangedLinesComplete
        /\ \A pr \in ChangedPairs : pr[2] = MarkerFirst(pr[1])

\* C10 witness: the message "  ~ x" of a changed unit became "!   x"
C10_Witness ==
    /\ mpc = "summarized"
    /\ << <<" "," ","~"," ","x">>, <<"!"," "," "," ","x">> >> \in ChangedPairs

\* the unit names of the log's matching lines
MatchedUnits ==
    {UnitName(TofuModule(logFile[i])) : i \in {j \in 1..Len(logFile) : TofuMatches(logFile[j])}}

\* the (1-based) number of the first line of the log that belongs to unit u
FirstLineOf(u) ==
    CHOOSE i \in 1..Len(logFile) :
        /\ TofuMatches(logFile[i]) /\ UnitName(TofuModule(logFile[i])) = u
        /\ \A j \in 1..(i-1) :
               ~ (TofuMatches(logFile[j]) /\ UnitName(TofuModule(logFile[j])) = u)

\* the messages of unit u's lines, in file order
RECURSIVE MsgsOf(_, _)
MsgsOf(lines, u) ==
    IF lines = <<>> THEN <<>>
    ELSE (IF TofuMatches(Head(lines)) /\ UnitName(TofuModule(Head(lines))) = u
          THEN <<TofuMessage(Head(lines))>> ELSE <<>>)
         \o MsgsOf(Tail(lines), u)

NoRepeat(seq) == \A i, j \in 1..Len(seq) : seq[i] = seq[j] => i = j
StableUnits == {summary.stable[i] : i \in 1..Len(summary.stable)}
DiffUnits == {summary.diffs[d].unit : d \in 1..Len(summary.diffs)}
DiffKeys == [d \in 1..Len(summary.diffs) |-> summary.diffs[d].unit]

\* C11: the stable list and the keys of the diff mapping partition the units
\* that have a matching line: each such unit is in exactly one of them, once,
\* and no other name is in either (none at all when no line matches)
C11_UnitsPartitioned ==
    (mpc = "summarized" /\ logExists) =>
        /\ NoRepeat(summary.stable)
        /\ NoRepeat(DiffKeys)
        /\ StableUnits \cap DiffUnits = {}
        /\ StableUnits \cup DiffUnits = MatchedUnits

\* C11 witness: a log with a stable unit and a changed unit was summarized
C11_Witness ==
    /\ mpc = "summarized"
    /\ Len(summary.stable) = 1
    /\ Len(summary.diffs) = 1
    /\ Cardinality(MatchedUnits) = 2

\* the units of seq are in the order of their first lines in the log
InFirstSeenOrder(seq) ==
    \A i, j \in 1..Len(seq) : i < j => FirstLineOf(seq[i]) < FirstLineOf(seq[j])

CountLines(text) == Cardinality({i \in 1..Len(text) : text[i] = "\n"})

\* the show invocation of a plan run has opened the log file
ShowLogging == cmd.log /\ call = "show" /\ mpc \notin {"popen", "open"}

\* the sentinel, if there is one, is the last line of the log, and no handle
\* with unwritten output is open on a log that has one
SentinelIsLast ==
    /\ Sentinels(logFile) \subseteq {Len(logFile)}
    /\ Sentinels(logFile) /= {} => (log_fh /= "open" /\ pending = <<>>)

\* while and after the show invocation writes to the log, the lines before
\* its starting point are exactly the plan invocation's captured lines and
\* the child lines after it are the show process's
PlanBeforeShow ==
    ShowLogging =>
        /\ logStart = CountLines(result.stdout) + CountLines(result.stderr)
        /\ logStart <= Len(logFile)
        /\ \A i \in 1..Len(logFile) :
               IF i <= logStart
               THEN /\ Contains(result.stdout, logFile[i]) \/ Contains(result.stderr, logFile[i])
                    /\ ~ InSeq(logFile[i], emitted["out"])
                    /\ ~ InSeq(logFile[i], emitted["err"])
               ELSE \/ InSeq(logFile[i], emitted["out"])
                    \/ InSeq(logFile[i], emitted["err"])
                    \/ IsSentinel(logFile[i]) /\ mpc \in {"plan_end"}

\* a step that puts a sentinel into the log is taken by a plan run that was
\* given the log file, after its show invocation returned: the child has
\* exited, both drain threads are done, the pipes are empty, the handle is
\* closed with nothing unwritten; it appends the plan process's code
SentinelWrittenLast ==
    (Sentinels(logFile') /= {} /\ Sentinels(logFile') /= Sentinels(logFile)) =>
        /\ cmd.name = "plan"
        /\ cmd.log
        /\ call = "show"
        /\ returned.code /= -1
        /\ child = "exited"
        /\ \A s \in Streams : tpc[s] = "done" /\ pipe[s] = <<>>
        /\ log_fh = "closed"
        /\ pending = <<>>
        /\ Sentinels(logFile) = {}
        /\ logFile' = Append(logFile, ExitMarkerLine(result.code))

\* C13: over any sequence of commands the log never holds more than one
\* sentinel and nothing follows it; the sentinel is written only after the
\* plan and the show invocation have finished draining, every plan line being
\* before every show line; a plan run without a log file writes none
C13_SentinelInvariant ==
    /\ []SentinelIsLast
    /\ []PlanBeforeShow
    /\ [][SentinelWrittenLast]_vars

\* C13 witness: a second command, a plan run with a log file, has logged a
\* plan line, then a show line, then the sentinel
C13_Witness ==
    /\ mpc = "plan_end"
    /\ ncmds = 2
    /\ cmd.log
    /\ logStart = 1
    /\ Len(logFile) = 3
    /\ ~ IsSentinel(logFile[2])
    /\ IsSentinel(logFile[3])

\* run_live is at its return statement or has returned to Runner.plan / apply
AtOrAfterReturn == mpc \in {"return", "plan_after", "plan_marker", "apply_end"}

\* at the return the child has exited, both drain threads have read to the
\* end of their streams and finished, and the log handle, if there was one,
\* is closed with nothing unwritten
ReturnsAfterAll ==
    AtOrAfterReturn =>
        /\ child = "exited"
        /\ retcode \in ExitCodes
        /\ \A s \in Streams : tpc[s] = "done" /\ pipe[s] = <<>>
        /\ \A s \in Streams : collector[s] = emitted[s]
        /\ log_fh = (IF LogGiven THEN "closed" ELSE "none")
        /\ pending = <<>>

\* a step taken after the return: nothing joins a capture buffer, the returned
\* result stays what it is, and the log changes only by Runner.plan's marker
NothingAfterReturn ==
    AfterReturn =>
        /\ \A s \in Streams : collector'[s] \in {collector[s], <<>>}
        /\ returned' \in {returned, NoResult}
        /\ \/ logFile' = logFile
           \/ mpc = "plan_marker" /\ logFile' = Append(logFile, ExitMarkerLine(result.code))

\* C14: run_live returns only after the child has exited, both drain threads
\* have reached the end of their streams and finished and the log handle is
\* closed; after the return nothing is added to a capture buffer, and nothing
\* to the log by that invocation
C14_ReturnAfterDrains ==
    /\ []ReturnsAfterAll
    /\ [][NothingAfterReturn]_vars

\* C14 witness: the quiet show invocation, with the log file, has returned
\* after a child that wrote to both streams
C14_Witness ==
    /\ mpc = "plan_marker"
    /\ log_fh = "closed"
    /\ collector["out"] /= <<>>
    /\ collector["err"] /= <<>>
    /\ Len(LoggedHere) = 2

\* line l was written by a child process of the current plan run: by the plan
\* process (still running, or captured in the result) or by the show process
FromThisRun(l) ==
    \/ InSeq(l, emitted["out"])
    \/ InSeq(l, emitted["err"])
    \/ call = "show" /\ (Contains(result.stdout, l) \/ Contains(result.stderr, l))

\* C15: from the launch of the plan process of a plan run with a log file on,
\* every line of the log was written by the run's plan or show process or is
\* the run's own sentinel, written at the end with the plan process's code, and
\* no line is there twice: nothing of the log that the run found is left
C15_LogStartsFresh ==
    (cmd.name = "plan" /\ cmd.log /\ mpc \notin {"idle", "popen"}) =>
        /\ NoRepeat(logFile)
        /\ \A i \in 1..Len(logFile) :
               IF IsSentinel(logFile[i])
               THEN /\ mpc = "plan_end"
                    /\ i = Len(logFile)
                    /\ logFile[i] = ExitMarkerLine(result.code)
               ELSE FromThisRun(logFile[i])

\* C15 witness: a plan run found a log with a sentinel, its plan process wrote
\* a line and exited with code 1, and the run is at its end
C15_Witness ==
    /\ mpc = "plan_end"
    /\ cmd.log
    /\ cmd.stale = "sentinel"
    /\ result.code = 1
    /\ Len(logFile) = 1

\* the log is absent, or none of its lines is the sentinel of code 0, 1 or 2
\* (it has no sentinel, or its sentinel carries another code)
Malformed ==
    \/ ~ logExists
    \/ \A i \in 1..Len(logFile) :
           logFile[i] \notin {ExitMarkerLine(0), ExitMarkerLine(1), ExitMarkerLine(2)}

\* C16 (as claimed): the report command leaves the log file as it is, and on
\* an absent log, a log without sentinel or a sentinel of an unrecognised code
\* it ends with a parameter error and leaves the output file as it was
C16_FailsClosed ==
    [][exitStatus'.cmd = "report" =>
          /\ logExists' = logExists
          /\ logFile' = logFile
          /\ Malformed => /\ exitStatus'.kind = "bad_parameter"
                          /\ outExists' = outExists
                          /\ outFile' = outFile]_vars

\* what the report command does with a log: rejects it, or chooses a state
Outcome(lines) ==
    IF ReportRejects(TRUE, lines) THEN "rejected" ELSE ReportState(Join(lines))

\* C17 (as claimed): the outcome of the report command on a log that ends
\* with a sentinel line is its outcome on the log that holds that line alone,
\* so that two logs ending with the same sentinel line get the same state
C17_StateFromSentinelOnly ==
    (/\ Ended("report")
     /\ logExists
     /\ logFile /= <<>>
     /\ IsSentinel(logFile[Len(logFile)]))
    => (IF exitStatus.kind = "bad_parameter" THEN "rejected" ELSE exitStatus.state)
           = Outcome(<<logFile[Len(logFile)]>>)

====
